---- MODULE Spec2Model ----
(***************************************************************************)
(* A model of pycmpdl.py (Curse modpack downloader): the main pipeline,    *)
(* the four download worker threads sharing a queue and a progress         *)
(* counter, the two server provisioning paths with their filename          *)
(* classifier, and the content fetcher download_file.                      *)
(*                                                                         *)
(* Strings the code inspects (file names) are sequences of one-character   *)
(* strings, so that lower(), find(), endswith() and replace() are computed *)
(* rather than assumed.  Python's None and the empty string, both falsy,   *)
(* are the empty sequence.                                                 *)
(***************************************************************************)
EXTENDS Integers, Sequences, FiniteSets, TLC

(***************************************************************************)
(* Bounds of the model.                                                    *)
(***************************************************************************)
MaxMods == 2        \* longest manifest['files'] list
MaxListing == 3     \* longest os.listdir() result
MaxSize == 2        \* largest file size / Content-Length, in bytes
MaxCalls == 2       \* calls of download_file on the same URL and folder

(***************************************************************************)
(* Program constants.                                                      *)
(***************************************************************************)
EXIT_NO_ERROR == 0
EXIT_NO_MODPACK == 2
EXIT_UNKNOWN_MANIFEST_VERSION == 3
NumWorkers == 4     \* for i in range(4)

Workers == 1..NumWorkers

\* The code never compares project ids: a manifest's descriptors are numbered
\* in order of first appearance.
ProjectIDs == 1..MaxMods

None == << >>

(***************************************************************************)
(* Python string operations, on sequences of characters.                   *)
(***************************************************************************)
UpperLetters ==
    <<"A","B","C","D","E","F","G","H","I","J","K","L","M",
      "N","O","P","Q","R","S","T","U","V","W","X","Y","Z">>

LowerLetters ==
    <<"a","b","c","d","e","f","g","h","i","j","k","l","m",
      "n","o","p","q","r","s","t","u","v","w","x","y","z">>

LowerChar(c) ==
    IF \E i \in 1..Len(UpperLetters) : UpperLetters[i] = c
    THEN LowerLetters[CHOOSE i \in 1..Len(UpperLetters) : UpperLetters[i] = c]
    ELSE c

\* str.lower()
Lower(s) == [i \in 1..Len(s) |-> LowerChar(s[i])]

RECURSIVE FindFrom(_, _, _)
FindFrom(s, sub, i) ==
    IF i + Len(sub) > Len(s) THEN -1
    ELSE IF SubSeq(s, i + 1, i + Len(sub)) = sub THEN i
    ELSE FindFrom(s, sub, i + 1)

\* str.find(sub): the lowest 0-based index of sub in s, or -1
Find(s, sub) == FindFrom(s, sub, 0)

\* str.endswith(suffix)
EndsWith(s, suf) ==
    /\ Len(s) >= Len(suf)
    /\ SubSeq(s, Len(s) - Len(suf) + 1, Len(s)) = suf

\* the truth value Python gives a str-or-None
Truthy(x) == x # None

STR_install == <<"i","n","s","t","a","l","l">>
STR_start == <<"s","t","a","r","t">>
STR_server == <<"s","e","r","v","e","r">>
EXT_jar == <<".","j","a","r">>
EXT_sh == <<".","s","h">>
EXT_bat == <<".","b","a","t">>

\* '.bat' if is_os_windows else '.sh'
ScriptEnding(windows) == IF windows THEN EXT_bat ELSE EXT_sh

(***************************************************************************)
(* File names a server bundle may hold (the directory listings are drawn   *)
(* from these).                                                            *)
(***************************************************************************)
F_ServerStart_sh == <<"S","e","r","v","e","r","S","t","a","r","t",".","s","h">>
F_forge_installer_jar ==
    <<"f","o","r","g","e","-","i","n","s","t","a","l","l","e","r",".","j","a","r">>
F_server_jar == <<"s","e","r","v","e","r",".","j","a","r">>
F_ServerInstall_bat ==
    <<"S","e","r","v","e","r","I","n","s","t","a","l","l",".","b","a","t">>
F_install_sh == <<"i","n","s","t","a","l","l",".","s","h">>
F_StartServer_bat == <<"S","t","a","r","t","S","e","r","v","e","r",".","b","a","t">>
F_Minecraft_Server_JAR ==
    <<"M","i","n","e","c","r","a","f","t","_","S","e","r","v","e","r",".","J","A","R">>
F_eula_txt == <<"e","u","l","a",".","t","x","t">>
F_start_sh == <<"s","t","a","r","t",".","s","h">>
F_Install_jar == <<"I","n","s","t","a","l","l",".","j","a","r">>

FilePool ==
    { F_ServerStart_sh, F_forge_installer_jar, F_server_jar, F_ServerInstall_bat,
      F_install_sh, F_StartServer_bat, F_Minecraft_Server_JAR, F_eula_txt,
      F_start_sh, F_Install_jar }

IsInjective(f) == \A i, j \in DOMAIN f : f[i] = f[j] => i = j

\* os.listdir(): distinct names in an arbitrary order
Listings ==
    { l \in UNION { [1..n -> FilePool] : n \in 0..MaxListing } : IsInjective(l) }

(***************************************************************************)
(* setup_server_from_zip, lines 405-437: the classifier.                   *)
(***************************************************************************)
NoFiles ==
    [ start_script |-> None, install_script |-> None,
      forge_server_jar |-> None, forge_install_jar |-> None ]

ClassifyOne_NoLower(files, path, ending) ==
    LET path_l == path IN
    IF Find(path_l, STR_install) >= 0 THEN
        IF EndsWith(path_l, ending) THEN
            IF ~Truthy(files.install_script)
            THEN [files EXCEPT !.install_script = path]
            ELSE files
        ELSE IF EndsWith(path_l, EXT_jar) THEN
            IF ~Truthy(files.forge_install_jar)
            THEN [files EXCEPT !.forge_install_jar = path]
            ELSE files
        ELSE files
    ELSE IF Find(path_l, STR_start) >= 0 THEN
        IF EndsWith(path_l, ending) /\ ~Truthy(files.start_script)
        THEN [files EXCEPT !.start_script = path]
        ELSE files
    ELSE IF Find(path_l, STR_server) >= 0 THEN
        IF EndsWith(path_l, EXT_jar) /\ ~Truthy(files.forge_server_jar)
        THEN [files EXCEPT !.forge_server_jar = path]
        ELSE files
    ELSE files

ClassifyOne_LastWins(files, path, ending) ==
    LET path_l == Lower(path) IN
    IF Find(path_l, STR_install) >= 0 THEN
        IF EndsWith(path_l, ending)
        THEN [files EXCEPT !.install_script = path]
        ELSE IF EndsWith(path_l, EXT_jar)
        THEN [files EXCEPT !.forge_install_jar = path]
        ELSE files
    ELSE IF Find(path_l, STR_start) >= 0 THEN
        IF EndsWith(path_l, ending)
        THEN [files EXCEPT !.start_script = path]
        ELSE files
    ELSE IF Find(path_l, STR_server) >= 0 THEN
        IF EndsWith(path_l, EXT_jar)
        THEN [files EXCEPT !.forge_server_jar = path]
        ELSE files
    ELSE files

\* one iteration of the loop over os.listdir(minecraft_dir)
ClassifyOne(files, path, ending) ==
    LET path_l == Lower(path) IN
    IF Find(path_l, STR_install) >= 0 THEN
        IF EndsWith(path_l, ending) THEN
            IF ~Truthy(files.install_script)
            THEN [files EXCEPT !.install_script = path]
            ELSE files
        ELSE IF EndsWith(path_l, EXT_jar) THEN
            IF ~Truthy(files.forge_install_jar)
            THEN [files EXCEPT !.forge_install_jar = path]
            ELSE files
        ELSE files
    ELSE IF Find(path_l, STR_start) >= 0 THEN
        IF EndsWith(path_l, ending) /\ ~Truthy(files.start_script)
        THEN [files EXCEPT !.start_script = path]
        ELSE files
    ELSE IF Find(path_l, STR_server) >= 0 THEN
        IF EndsWith(path_l, EXT_jar) /\ ~Truthy(files.forge_server_jar)
        THEN [files EXCEPT !.forge_server_jar = path]
        ELSE files
    ELSE files

RECURSIVE ClassifyFrom(_, _, _, _)
ClassifyFrom(files, listing, i, ending) ==
    IF i > Len(listing) THEN files
    ELSE ClassifyFrom(ClassifyOne(files, listing[i], ending), listing, i + 1, ending)

\* the whole loop
Classify(listing, ending) == ClassifyFrom(NoFiles, listing, 1, ending)

(***************************************************************************)
(* download_file, lines 94-116.  A URL is its sequence of '/'-separated    *)
(* segments.  A remote is what the server answers for the URL: an optional *)
(* Location header on the first request and, on the streaming request, an  *)
(* optional Content-Length header and the body iter_content() yields.      *)
(* The file system maps a path to None (no file) or <<size>>.              *)
(***************************************************************************)
FETCH_URL == <<"host", "files", "10", "download">>
FETCH_LOCATION == <<"cdn", "mod.jar">>
FETCH_FOLDER == <<"mods">>

\* content_length is read only when has_length holds.  The body may be longer
\* than declared (a Content-Encoding that iter_content decodes) or shorter (a
\* transfer cut short), but a declared length of 0 leaves nothing to read.
Remotes ==
    { r \in [ location : {None, FETCH_LOCATION},
              has_length : BOOLEAN,
              content_length : 0..MaxSize,
              body : 0..MaxSize ] :
        /\ r.has_length \/ r.content_length = 0
        /\ r.has_length /\ r.content_length = 0 => r.body = 0 }

\* url.split('/')[-1]
LastSegment(url) == url[Len(url)]

\* os.path.join(folder, filename) when folder is given
LocalPath(url, folder, remote) ==
    LET effective == IF remote.location # None THEN remote.location ELSE url
        filename == LastSegment(effective)
    IN  IF Truthy(folder) THEN folder \o <<filename>> ELSE <<filename>>

PathsOf(folder) ==
    { LocalPath(FETCH_URL, folder, r) : r \in Remotes }

\* int(local_size) == int(remote_size), lines 106-109; only evaluated when
\* the Content-Length header is there
SizeMatches_Uncast(local, remote) == FALSE

SizeMatches(local, remote) == local[1] = remote.content_length

\* The outcome of one call: raised names the exception that left the call
\* (None when it returned), result is the returned path, wrote says whether
\* the local file was opened for writing (truncated and rewritten), existed
\* is what os.path.exists(filename) would give when the call began.  net is
\* what the transport does: "raises" is an error of either s.get.
download_file(url, folder, remote, local_files, net) ==
    LET path == LocalPath(url, folder, remote)
        exists == path \in DOMAIN local_files /\ local_files[path] # None
        failed(e) == [ raised |-> <<e>>, result |-> None, wrote |-> FALSE,
                       existed |-> exists, fs |-> local_files ]
        skipped == [ raised |-> None, result |-> path, wrote |-> FALSE,
                     existed |-> exists, fs |-> local_files ]
        written == [ raised |-> None, result |-> path, wrote |-> TRUE,
                     existed |-> exists,
                     fs |-> [ p \in DOMAIN local_files \cup {path} |->
                                IF p = path THEN <<remote.body>>
                                ELSE local_files[p] ] ]
    IN  IF net = "raises" THEN failed("RequestException")
        ELSE IF exists THEN
            IF ~remote.has_length THEN failed("KeyError")
            ELSE IF SizeMatches(local_files[path], remote) THEN skipped
            ELSE written
        ELSE written

(***************************************************************************)
(* Paths are sequences of segments; an absolute path starts with "/".      *)
(***************************************************************************)
IsAbs(path) == Len(path) > 0 /\ path[1] = "/"

\* os.path.join(a, b): an absolute b discards a
PathJoin(a, b) == IF IsAbs(b) THEN b ELSE a \o b

CWD == <<"/", "cwd">>
CACHE_DIR == <<"/", "home", ".cache", "pycmpdl">>
SERVER_NAME == <<"myserver">>

(***************************************************************************)
(* The archive given to the program.  A manifestVersion is absent, an int  *)
(* or a float (JSON 1.0), so that Python's "is not 1" can be told from     *)
(* "!= 1".                                                                 *)
(***************************************************************************)
ManifestVersions ==
    { [kind |-> "absent", val |-> 0], [kind |-> "float", val |-> 1] }
        \cup [ kind : {"int"}, val : 0..2 ]

FirstAppearanceOrder(l) ==
    \A i \in DOMAIN l : l[i] = 1 \/ \E j \in 1..(i - 1) : l[j] = l[i] - 1

\* manifest['files']: duplicates allowed
FileLists ==
    { l \in UNION { [1..n -> ProjectIDs] : n \in 0..MaxMods } :
        FirstAppearanceOrder(l) }

NoManifestArchive ==
    [ has_manifest |-> FALSE, manifestType |-> "absent",
      manifestVersion |-> [kind |-> "absent", val |-> 0],
      name |-> None, files |-> << >> ]

Archives ==
    {NoManifestArchive} \cup
    [ has_manifest : {TRUE},
      manifestType : {"absent", "minecraftModpack", "other"},
      manifestVersion : ManifestVersions,
      name : {<<"Pack">>},
      files : FileLists ]

\* the KeyError ZipFile.open raises for a missing member, line 152
ZIP_NO_ITEM == "There is no item named 'manifest.json' in the archive"
\* the message main compares e.args[0] with, line 535
MAIN_NO_ITEM == "There is no item named 'manifest.json' in the archive"

\* line 155: 'manifestType' not in manifest or not (... == 'minecraftModpack')
NotAModpack_KeyOnly(m) == m.manifestType = "absent"

NotAModpack(m) ==
    m.manifestType = "absent" \/ ~(m.manifestType = "minecraftModpack")

\* line 158: manifest['manifestVersion'] is not 1  (identity with the int 1)
IsNot1_Greater(v) == v.val > 1

IsNot1(v) == ~(v.kind = "int" /\ v.val = 1)

\* unzip_modpack, lines 146-171: how the call ends for an archive
UnzipOutcome(a) ==
    IF ~a.has_manifest
      THEN [kind |-> "KeyError", arg |-> ZIP_NO_ITEM, status |-> 0]
    ELSE IF NotAModpack(a)
      THEN [kind |-> "exit", arg |-> "", status |-> EXIT_NO_MODPACK]
    ELSE IF a.manifestVersion.kind = "absent"
      THEN [kind |-> "KeyError", arg |-> "manifestVersion", status |-> 0]
    ELSE IF IsNot1(a.manifestVersion)
      THEN [kind |-> "exit", arg |-> "", status |-> EXIT_UNKNOWN_MANIFEST_VERSION]
    ELSE [kind |-> "return", arg |-> "", status |-> 0]

\* main's except KeyError, lines 533-541
OnKeyError_AnyMode(server, arg) ==
    IF arg = MAIN_NO_ITEM THEN "bundle" ELSE "reraise"

OnKeyError(server, arg) ==
    IF server
    THEN IF arg = MAIN_NO_ITEM THEN "bundle" ELSE "reraise"
    ELSE "exit"

(***************************************************************************)
(* The state of a run of main().                                           *)
(***************************************************************************)
VARIABLES
    args_server,        \* args.server  (-s)
    args_multimc,       \* args.multimc (-m)
    print_messages,     \* False under --quiet
    is_os_windows,      \* os.name == 'nt'
    main_pc,            \* where the main thread is
    exit_status,        \* << >> while running, <<status>> after sys.exit(status)
    archive,            \* << >> until the archive is opened, then <<archive>>
    extracted,          \* zip_file.extractall(modpack_cachedir) has run
    modpack_basedir,
    modpack_cachedir,
    minecraft_dir,
    thread_i,           \* threads started so far, the loop of line 212
    put_i,              \* descriptors queued so far, the loop of line 217
    download_queue,     \* Queue(): the descriptors waiting
    unfinished_tasks,   \* Queue.unfinished_tasks: put() adds, task_done() subtracts
    download_count,     \* the global; << >> while the name is unbound, else <<n>>
    pc,                 \* where each worker thread is
    item,               \* the descriptor each worker holds (file)
    shown,              \* the count each worker formatted into its message
    fetched,            \* how many times each project was fetched
    printed,            \* the counts of the 'Downloaded mod X of M' lines, in order
    overrides_copied,   \* copy_overrides has run
    listing,            \* what os.listdir(minecraft_dir) returned
    files,              \* the roles the classifier assigned
    forge_server_jar,   \* setup_server_instance's local
    start_script,       \* setup_server_instance's local
    prompts,            \* the ask_permission prompts issued, in order
    installs,           \* the install actions executed, in order
    settings,           \* << >>, or <<SERVER_JAR value>> once a settings file is written
    answers,            \* what ask_permission returned, one per prompt issued
    java_probe,         \* << >>, or <<what check_java() returned>>
    instance_cfg,       \* << >>, or <<the name and notes written to instance.cfg>>
    fetch_folder,       \* download_file called on its own: its folder,
    fetch_remote,       \*   what the server answers now,
    fetch_fs,           \*   the local files,
    fetch_calls         \*   and the calls made so far

main_vars ==
    << args_server, args_multimc, print_messages, is_os_windows, main_pc,
       exit_status, archive, extracted, modpack_basedir, modpack_cachedir,
       minecraft_dir, thread_i, put_i, overrides_copied >>

queue_vars == << download_queue, unfinished_tasks >>

worker_vars == << download_count, pc, item, shown, fetched, printed >>

server_vars ==
    << listing, files, forge_server_jar, start_script, prompts, installs,
       settings, answers, java_probe, instance_cfg >>

fetch_vars == << fetch_folder, fetch_remote, fetch_fs, fetch_calls >>

vars == << main_vars, queue_vars, worker_vars, server_vars, fetch_vars >>

Manifest == archive[1]

\* the process is alive: sys.exit has not run and no exception left main
Running == main_pc \notin {"exited", "uncaught"}

InitRun ==
    /\ args_server \in BOOLEAN
    /\ args_multimc \in BOOLEAN
    /\ print_messages \in BOOLEAN
    /\ is_os_windows \in BOOLEAN
    /\ main_pc = "unzip_modpack"
    /\ exit_status = << >>
    /\ archive = << >>
    /\ extracted = FALSE
    /\ modpack_basedir = None
    /\ modpack_cachedir = None
    /\ minecraft_dir = None
    /\ thread_i = 0
    /\ put_i = 0
    /\ download_queue = << >>
    /\ unfinished_tasks = 0
    /\ download_count = << >>
    /\ pc = [w \in Workers |-> "not_started"]
    /\ item = [w \in Workers |-> 0]
    /\ shown = [w \in Workers |-> 0]
    /\ fetched = [p \in ProjectIDs |-> 0]
    /\ printed = << >>
    /\ overrides_copied = FALSE
    /\ listing = << >>
    /\ files = NoFiles
    /\ forge_server_jar = None
    /\ start_script = None
    /\ prompts = << >>
    /\ installs = << >>
    /\ settings = << >>
    /\ answers = << >>
    /\ java_probe = << >>
    /\ instance_cfg = << >>

NoFetch ==
    /\ fetch_folder = None
    /\ fetch_remote = << >>
    /\ fetch_fs = << >>
    /\ fetch_calls = << >>

Init == InitRun /\ NoFetch

\* exit_program(status), lines 70-71
Exit(status) ==
    /\ main_pc' = "exited"
    /\ exit_status' = <<status>>

(***************************************************************************)
(* main, lines 531-549: open the archive, then set the directories.        *)
(***************************************************************************)
MainUnzip ==
    /\ main_pc = "unzip_modpack"
    /\ \E a \in Archives :
        LET out == UnzipOutcome(a) IN
        /\ archive' = <<a>>
        /\ CASE out.kind = "return" ->
                 /\ modpack_basedir' = PathJoin(CWD, a.name)
                 /\ modpack_cachedir' = PathJoin(CACHE_DIR, PathJoin(CWD, a.name))
                 /\ extracted' = TRUE
                 /\ main_pc' = "set_dirs"
                 /\ UNCHANGED exit_status
             [] out.kind = "exit" ->
                 /\ Exit(out.status)
                 /\ UNCHANGED << modpack_basedir, modpack_cachedir, extracted >>
             [] out.kind = "KeyError" ->
                 /\ UNCHANGED << modpack_basedir, modpack_cachedir, extracted >>
                 /\ LET then == OnKeyError(args_server, out.arg) IN
                    CASE then = "bundle" ->
                           main_pc' = "setup_server_from_zip" /\ UNCHANGED exit_status
                      [] then = "reraise" ->
                           main_pc' = "uncaught" /\ UNCHANGED exit_status
                      [] then = "exit" -> Exit(EXIT_NO_MODPACK)
    /\ UNCHANGED << args_server, args_multimc, print_messages, is_os_windows,
                    minecraft_dir, thread_i, put_i, overrides_copied >>
    /\ UNCHANGED << queue_vars, worker_vars, server_vars, fetch_vars >>

\* lines 543-546: the instance root the flags select
MinecraftDirFor(multimc, basedir) ==
    IF multimc THEN PathJoin(basedir, <<".minecraft">>) ELSE basedir

\* lines 543-549
MainSetDirs ==
    /\ main_pc = "set_dirs"
    /\ minecraft_dir' = MinecraftDirFor(args_multimc, modpack_basedir)
    /\ main_pc' = "start_threads"
    /\ UNCHANGED << args_server, args_multimc, print_messages, is_os_windows,
                    exit_status, archive, extracted, modpack_basedir,
                    modpack_cachedir, thread_i, put_i, overrides_copied >>
    /\ UNCHANGED << queue_vars, worker_vars, server_vars, fetch_vars >>

(***************************************************************************)
(* download_mods, lines 174-222: the main thread's part.                   *)
(***************************************************************************)
main_only ==
    << args_server, args_multimc, print_messages, is_os_windows, exit_status,
       archive, extracted, modpack_basedir, modpack_cachedir, minecraft_dir,
       overrides_copied >>

\* lines 212-215: thread.start(), one worker per pass
MainStartThread ==
    /\ main_pc = "start_threads"
    /\ IF thread_i < NumWorkers
       THEN /\ pc' = [pc EXCEPT ![thread_i + 1] = "init_check"]
            /\ thread_i' = thread_i + 1
            /\ UNCHANGED main_pc
       ELSE /\ main_pc' = "put"
            /\ UNCHANGED << pc, thread_i >>
    /\ UNCHANGED << main_only, put_i, queue_vars, server_vars, fetch_vars >>
    /\ UNCHANGED << download_count, item, shown, fetched, printed >>

\* lines 217-218: download_queue.put(file), one descriptor per pass
MainPut ==
    /\ main_pc = "put"
    /\ IF put_i < Len(Manifest.files)
       THEN /\ download_queue' = Append(download_queue, Manifest.files[put_i + 1])
            /\ unfinished_tasks' = unfinished_tasks + 1
            /\ put_i' = put_i + 1
            /\ UNCHANGED main_pc
       ELSE /\ main_pc' = "join"
            /\ UNCHANGED << queue_vars, put_i >>
    /\ UNCHANGED << main_only, thread_i, worker_vars, server_vars, fetch_vars >>

\* Queue.join() returns once every put() has been matched by a task_done()
JoinReleased_QueueEmpty == download_queue = << >>

JoinReleased == unfinished_tasks = 0

\* line 220
MainJoin ==
    /\ main_pc = "join"
    /\ JoinReleased
    /\ main_pc' = "copy_overrides"
    /\ UNCHANGED << main_only, thread_i, put_i >>
    /\ UNCHANGED << queue_vars, worker_vars, server_vars, fetch_vars >>

(***************************************************************************)
(* download_mod, lines 179-204: one worker thread.  The threads are        *)
(* daemons: they stop when the process ends.  A "with LOCK" body is one    *)
(* step; what the code does outside the lock is a step of its own.         *)
(***************************************************************************)
other_than_workers == << main_vars, server_vars, fetch_vars >>

\* lines 183-187: "not download_count" is true for 0 and the name is unbound at
\* first (NameError); both lead to the assignment
WInitCheck(w) ==
    /\ Running
    /\ pc[w] = "init_check"
    /\ pc' = [pc EXCEPT ![w] =
                IF download_count = << >> \/ download_count[1] = 0
                THEN "init_assign" ELSE "get"]
    /\ UNCHANGED << download_count, item, shown, fetched, printed >>
    /\ UNCHANGED << other_than_workers, queue_vars >>

\* lines 185, 187: download_count = 0
WInitAssign(w) ==
    /\ Running
    /\ pc[w] = "init_assign"
    /\ download_count' = <<0>>
    /\ pc' = [pc EXCEPT ![w] = "get"]
    /\ UNCHANGED << item, shown, fetched, printed >>
    /\ UNCHANGED << other_than_workers, queue_vars >>

\* line 191: file = download_queue.get(), blocking while the queue is empty
WGet(w) ==
    /\ Running
    /\ pc[w] = "get"
    /\ download_queue # << >>
    /\ item' = [item EXCEPT ![w] = Head(download_queue)]
    /\ download_queue' = Tail(download_queue)
    /\ pc' = [pc EXCEPT ![w] = "fetch"]
    /\ UNCHANGED << unfinished_tasks, download_count, shown, fetched, printed >>
    /\ UNCHANGED other_than_workers

\* lines 193-198: resolve the project URL and download the file; either request
\* may raise, and nothing in the thread catches it: the thread ends
WFetch(w) ==
    /\ Running
    /\ pc[w] = "fetch"
    /\ \E outcome \in {"done", "resolve_raises", "download_raises"} :
        IF outcome = "done"
        THEN /\ fetched' = [fetched EXCEPT ![item[w]] = @ + 1]
             /\ pc' = [pc EXCEPT ![w] = "count"]
        ELSE /\ pc' = [pc EXCEPT ![w] = "dead"]
             /\ UNCHANGED fetched
    /\ UNCHANGED << download_count, item, shown, printed >>
    /\ UNCHANGED << other_than_workers, queue_vars >>

\* lines 200-201: with LOCK: download_count += 1
WCount(w) ==
    /\ Running
    /\ pc[w] = "count"
    /\ download_count' = <<download_count[1] + 1>>
    /\ pc' = [pc EXCEPT ![w] = "format"]
    /\ UNCHANGED << item, shown, fetched, printed >>
    /\ UNCHANGED << other_than_workers, queue_vars >>

\* line 202: the argument f"Downloaded mod {download_count} of ..." is
\* evaluated before safe_print is entered, outside the lock
WFormat(w) ==
    /\ Running
    /\ pc[w] = "format"
    /\ shown' = [shown EXCEPT ![w] = download_count[1]]
    /\ pc' = [pc EXCEPT ![w] = "print"]
    /\ UNCHANGED << download_count, item, fetched, printed >>
    /\ UNCHANGED << other_than_workers, queue_vars >>

\* safe_print, lines 46-51: with LOCK: print(message), when print_messages;
\* the formatted message is not used again
WPrint(w) ==
    /\ Running
    /\ pc[w] = "print"
    /\ printed' = IF print_messages THEN Append(printed, shown[w]) ELSE printed
    /\ shown' = [shown EXCEPT ![w] = 0]
    /\ pc' = [pc EXCEPT ![w] = "task_done"]
    /\ UNCHANGED << download_count, item, fetched >>
    /\ UNCHANGED << other_than_workers, queue_vars >>

\* Queue.task_done(): one unfinished task less
TaskDone_Forgotten(unfinished) == unfinished

TaskDone(unfinished) == unfinished - 1

\* line 204: download_queue.task_done(); the loop then rebinds file
WTaskDone(w) ==
    /\ Running
    /\ pc[w] = "task_done"
    /\ unfinished_tasks' = TaskDone(unfinished_tasks)
    /\ item' = [item EXCEPT ![w] = 0]
    /\ pc' = [pc EXCEPT ![w] = "get"]
    /\ UNCHANGED << download_queue, download_count, shown, fetched, printed >>
    /\ UNCHANGED other_than_workers

Worker(w) ==
    \/ WInitCheck(w)
    \/ WInitAssign(w)
    \/ WGet(w)
    \/ WFetch(w)
    \/ WCount(w)
    \/ WFormat(w)
    \/ WPrint(w)
    \/ WTaskDone(w)

(***************************************************************************)
(* main, lines 553-561: overrides, then the provisioner the flags select.  *)
(***************************************************************************)
\* copy_overrides, lines 225-245, and the dispatch of lines 555-561
MainCopyOverrides ==
    /\ main_pc = "copy_overrides"
    /\ overrides_copied' = TRUE
    /\ IF args_server
       THEN main_pc' = "setup_server_instance" /\ UNCHANGED exit_status
       ELSE IF args_multimc
       THEN main_pc' = "setup_multimc_instance" /\ UNCHANGED exit_status
       ELSE Exit(EXIT_NO_ERROR)
    /\ UNCHANGED << args_server, args_multimc, print_messages, is_os_windows,
                    archive, extracted, modpack_basedir, modpack_cachedir,
                    minecraft_dir, thread_i, put_i >>
    /\ UNCHANGED << queue_vars, worker_vars, server_vars, fetch_vars >>

(***************************************************************************)
(* setup_multimc_instance, lines 248-274.                                  *)
(***************************************************************************)
STR_forge_dash == <<"f","o","r","g","e","-">>
STR_None == <<"N","o","n","e">>
STR_using_forge == <<" ","U","s","i","n","g"," ","F","o","r","g","e"," ">>
STR_modpack_by == <<"M","o","d","p","a","c","k"," ","b","y"," ">>
STR_generated ==
    <<"."," ","G","e","n","e","r","a","t","e","d"," ","b","y"," ","C","M","P","D","L",".">>

\* manifest['author'], manifest['version']
AUTHOR == <<"a","n","n">>
PACK_VERSION == <<"1",".","0">>

\* manifest['minecraft']['modLoaders'][0]['id']
LoaderIds ==
    { <<"f","o","r","g","e","-","1","4",".","2">>,
      <<"f","o","r","g","e","-","3","1">>,
      <<"f","a","b","r","i","c","-","0",".","7">>,
      <<"F","o","r","g","e","-","1","4">> }

\* str.startswith(prefix)
StartsWith(s, prefix) ==
    Len(s) >= Len(prefix) /\ SubSeq(s, 1, Len(prefix)) = prefix

\* str.lstrip(chars): drops leading characters that are in chars
RECURSIVE LStrip(_, _)
LStrip(s, chars) ==
    IF s # << >> /\ \E i \in DOMAIN chars : chars[i] = s[1]
    THEN LStrip(Tail(s), chars)
    ELSE s

\* what an f-string puts for a value: str(None) is 'None'
FormatValue(v) == IF v = None THEN STR_None ELSE v

\* get_forge(), lines 251-254: falls off the end (None) without the prefix
get_forge(forge_version) ==
    IF StartsWith(forge_version, STR_forge_dash)
    THEN STR_using_forge \o LStrip(forge_version, STR_forge_dash) \o <<".">>
    ELSE None

\* lines 270-271: the name= and notes= values
InstanceName(m) == FormatValue(m.name) \o FormatValue(PACK_VERSION)

InstanceNotes(loader_id) ==
    STR_modpack_by \o FormatValue(AUTHOR) \o STR_generated
        \o FormatValue(get_forge(loader_id))

\* setup_multimc_instance, lines 248-274, then exit_program of line 561
MainSetupMultiMC ==
    /\ main_pc = "setup_multimc_instance"
    /\ \E id \in LoaderIds :
        instance_cfg' = << [ loader_id |-> id,
                             name |-> InstanceName(Manifest),
                             notes |-> InstanceNotes(id) ] >>
    /\ Exit(EXIT_NO_ERROR)
    /\ UNCHANGED << args_server, args_multimc, print_messages, is_os_windows,
                    archive, extracted, modpack_basedir, modpack_cachedir,
                    minecraft_dir, thread_i, put_i, overrides_copied >>
    /\ UNCHANGED << listing, files, forge_server_jar, start_script, prompts,
                    installs, settings, answers, java_probe >>
    /\ UNCHANGED << queue_vars, worker_vars, fetch_vars >>

(***************************************************************************)
(* install_forge_server, lines 277-306.                                    *)
(***************************************************************************)
RECURSIVE ReplaceFrom(_, _, _, _)
ReplaceFrom(s, old, new, i) ==
    IF i > Len(s) THEN << >>
    ELSE IF i + Len(old) - 1 <= Len(s) /\ SubSeq(s, i, i + Len(old) - 1) = old
         THEN new \o ReplaceFrom(s, old, new, i + Len(old))
         ELSE <<s[i]>> \o ReplaceFrom(s, old, new, i + 1)

\* str.replace(old, new), old not empty
Replace(s, old, new) == ReplaceFrom(s, old, new, 1)

STR_universal == <<"u","n","i","v","e","r","s","a","l">>
FORGE_VERSION == <<"1",".","1","2","-","1","4">>

\* f"forge-{forge_version}-installer.jar", line 288
ForgeJar(version) ==
    <<"f","o","r","g","e","-">> \o version \o
    <<"-","i","n","s","t","a","l","l","e","r",".","j","a","r">>

\* lines 293-301: the installer process is started only past the probe
InstallerRuns_Regardless(java) == TRUE

InstallerRuns(java) == java

\* the value returned: None when check_java() fails (line 297), else line 306
InstallForgeServer(version, java) ==
    IF ~java THEN None
    ELSE Replace(ForgeJar(version), STR_install, STR_universal)

(***************************************************************************)
(* setup_server_instance, lines 359-386.                                   *)
(***************************************************************************)
\* one pass of the loop of lines 372-380; "if path_l.find('start'):" takes the
\* integer find() returns as its truth value
StartScanOne(found, path, ending) ==
    LET path_l == Lower(path) IN
    IF Find(path_l, STR_start) # 0 /\ EndsWith(path_l, ending) /\ ~Truthy(found)
    THEN path
    ELSE found

RECURSIVE StartScanFrom(_, _, _, _)
StartScanFrom(found, l, i, ending) ==
    IF i > Len(l) THEN found
    ELSE StartScanFrom(StartScanOne(found, l[i], ending), l, i + 1, ending)

StartScan(l, ending) == StartScanFrom(None, l, 1, ending)

main_fixed ==
    << args_server, args_multimc, print_messages, is_os_windows, archive,
       extracted, modpack_basedir, modpack_cachedir, thread_i, put_i,
       overrides_copied >>

\* line 367: forge_server_jar = install_forge_server(forge_version)
SsiInstall ==
    /\ main_pc = "setup_server_instance"
    /\ \E java \in BOOLEAN :
        /\ forge_server_jar' = InstallForgeServer(FORGE_VERSION, java)
        /\ installs' = IF InstallerRuns(java)
                       THEN Append(installs, "fresh_installer") ELSE installs
        /\ java_probe' = <<java>>
    /\ main_pc' = "ssi_scan"
    /\ UNCHANGED << main_fixed, exit_status, minecraft_dir >>
    /\ UNCHANGED << listing, files, start_script, prompts, settings, answers,
                    instance_cfg >>
    /\ UNCHANGED << queue_vars, worker_vars, fetch_vars >>

\* lines 369-380
SsiScan ==
    /\ main_pc = "ssi_scan"
    /\ \E l \in Listings :
        /\ listing' = l
        /\ start_script' = StartScan(l, ScriptEnding(is_os_windows))
    /\ main_pc' = "ssi_start"
    /\ UNCHANGED << main_fixed, exit_status, minecraft_dir >>
    /\ UNCHANGED << files, forge_server_jar, prompts, installs, settings,
                    answers, java_probe, instance_cfg >>
    /\ UNCHANGED << queue_vars, worker_vars, fetch_vars >>

\* lines 382-386, then exit_program of line 561
SsiStart ==
    /\ main_pc = "ssi_start"
    /\ IF ~Truthy(start_script)
       THEN \E answer \in BOOLEAN :
              /\ prompts' = Append(prompts, "start_script")
              /\ answers' = Append(answers, answer)
              /\ settings' = IF answer THEN <<forge_server_jar>> ELSE settings
       ELSE UNCHANGED << prompts, answers, settings >>
    /\ Exit(EXIT_NO_ERROR)
    /\ UNCHANGED << main_fixed, minecraft_dir >>
    /\ UNCHANGED << listing, files, forge_server_jar, start_script, installs,
                    java_probe, instance_cfg >>
    /\ UNCHANGED << queue_vars, worker_vars, fetch_vars >>

(***************************************************************************)
(* setup_server_from_zip, lines 389-473, entered from line 536.            *)
(***************************************************************************)
\* lines 394-437: name the instance, extract, classify the listing
SfzScan ==
    /\ main_pc = "setup_server_from_zip"
    /\ minecraft_dir' = IF ~Truthy(minecraft_dir)
                        THEN PathJoin(CWD, SERVER_NAME) ELSE minecraft_dir
    /\ \E l \in Listings :
        /\ listing' = l
        /\ files' = Classify(l, ScriptEnding(is_os_windows))
    /\ main_pc' = "sfz_install"
    /\ UNCHANGED << main_fixed, exit_status >>
    /\ UNCHANGED << forge_server_jar, start_script, prompts, installs, settings,
                    answers, java_probe, instance_cfg >>
    /\ UNCHANGED << queue_vars, worker_vars, fetch_vars >>

\* lines 439-467: at most one branch; java missing makes subprocess.run of
\* line 458 raise FileNotFoundError, which nothing catches
SfzInstall ==
    /\ main_pc = "sfz_install"
    /\ \E answer \in BOOLEAN, java \in BOOLEAN :
        IF Truthy(files.install_script) /\ ~Truthy(files.forge_server_jar) THEN
            /\ prompts' = Append(prompts, "install_script")
            /\ answers' = Append(answers, answer)
            /\ installs' = IF answer THEN Append(installs, "install_script")
                           ELSE installs
            /\ main_pc' = "sfz_start"
            /\ UNCHANGED << files, java_probe >>
        ELSE IF Truthy(files.forge_install_jar) /\ ~Truthy(files.forge_server_jar) THEN
            /\ prompts' = Append(prompts, "install_jar")
            /\ answers' = Append(answers, answer)
            /\ installs' = IF answer /\ java THEN Append(installs, "install_jar")
                           ELSE installs
            /\ main_pc' = IF answer /\ ~java THEN "uncaught" ELSE "sfz_start"
            /\ UNCHANGED << files, java_probe >>
        ELSE IF ~Truthy(files.forge_server_jar) THEN
            /\ prompts' = Append(prompts, "fresh_installer")
            /\ answers' = Append(answers, answer)
            /\ installs' = IF answer /\ InstallerRuns(java)
                           THEN Append(installs, "fresh_installer")
                           ELSE installs
            /\ java_probe' = IF answer THEN <<java>> ELSE java_probe
            /\ files' = IF answer
                        THEN [files EXCEPT !.forge_server_jar =
                                 InstallForgeServer(FORGE_VERSION, java)]
                        ELSE files
            /\ main_pc' = "sfz_start"
        ELSE
            /\ main_pc' = "sfz_start"
            /\ UNCHANGED << prompts, answers, installs, files, java_probe >>
    /\ UNCHANGED << main_fixed, exit_status, minecraft_dir >>
    /\ UNCHANGED << listing, forge_server_jar, start_script, settings, instance_cfg >>
    /\ UNCHANGED << queue_vars, worker_vars, fetch_vars >>

\* lines 469-473, then exit_program of line 537
SfzStart ==
    /\ main_pc = "sfz_start"
    /\ IF ~Truthy(files.start_script)
       THEN \E answer \in BOOLEAN :
              /\ prompts' = Append(prompts, "start_script")
              /\ answers' = Append(answers, answer)
              /\ settings' = IF answer THEN <<files.forge_server_jar>> ELSE settings
       ELSE UNCHANGED << prompts, answers, settings >>
    /\ Exit(EXIT_NO_ERROR)
    /\ UNCHANGED << main_fixed, minecraft_dir >>
    /\ UNCHANGED << listing, files, forge_server_jar, start_script, installs,
                    java_probe, instance_cfg >>
    /\ UNCHANGED << queue_vars, worker_vars, fetch_vars >>

(***************************************************************************)
(* download_file called repeatedly with one URL and one folder.            *)
(***************************************************************************)
LocalSizes == {None} \cup { <<n>> : n \in 0..MaxSize }

FetchCall ==
    /\ Len(fetch_calls) < MaxCalls
    /\ \E net \in {"ok", "raises"} :
        LET out == download_file(FETCH_URL, fetch_folder, fetch_remote, fetch_fs, net)
        IN  /\ fetch_fs' = out.fs
            /\ fetch_calls' = Append(fetch_calls,
                   [ remote |-> fetch_remote, raised |-> out.raised,
                     result |-> out.result, wrote |-> out.wrote,
                     existed |-> out.existed ])
    /\ UNCHANGED << fetch_folder, fetch_remote >>
    /\ UNCHANGED << main_vars, queue_vars, worker_vars, server_vars >>

\* the server's answer changes between two calls
FetchRemoteChanges ==
    /\ Len(fetch_calls) < MaxCalls
    /\ fetch_remote' \in Remotes \ {fetch_remote}
    /\ UNCHANGED << fetch_folder, fetch_fs, fetch_calls >>
    /\ UNCHANGED << main_vars, queue_vars, worker_vars, server_vars >>

(***************************************************************************)
(* The program, by phase.  Spec is main() from the opening of the archive  *)
(* to the entry of download_mods, with the server-bundle path that         *)
(* replaces the pipeline for an archive without a manifest.  SpecDownload  *)
(* is download_mods with its worker threads and the copy_overrides that    *)
(* follows it, started in the states Spec hands over.                      *)
(***************************************************************************)
Next ==
    \/ MainUnzip
    \/ MainSetDirs
    \/ SfzScan
    \/ SfzInstall
    \/ SfzStart

Spec == Init /\ [][Next]_vars

\* download_mods is entered: a manifest was accepted and the directories set
InitDownload ==
    /\ \E a \in Archives :
        /\ UnzipOutcome(a).kind = "return"
        /\ archive = <<a>>
        /\ modpack_basedir = PathJoin(CWD, a.name)
        /\ modpack_cachedir = PathJoin(CACHE_DIR, PathJoin(CWD, a.name))
        /\ minecraft_dir = PathJoin(CWD, a.name)
    /\ args_server = FALSE
    /\ args_multimc = FALSE
    /\ is_os_windows = FALSE
    /\ print_messages \in BOOLEAN
    /\ extracted = TRUE
    /\ main_pc = "start_threads"
    /\ exit_status = << >>
    /\ thread_i = 0
    /\ put_i = 0
    /\ download_queue = << >>
    /\ unfinished_tasks = 0
    /\ download_count = << >>
    /\ pc = [w \in Workers |-> "not_started"]
    /\ item = [w \in Workers |-> 0]
    /\ shown = [w \in Workers |-> 0]
    /\ fetched = [p \in ProjectIDs |-> 0]
    /\ printed = << >>
    /\ overrides_copied = FALSE
    /\ listing = << >>
    /\ files = NoFiles
    /\ forge_server_jar = None
    /\ start_script = None
    /\ prompts = << >>
    /\ installs = << >>
    /\ settings = << >>
    /\ answers = << >>
    /\ java_probe = << >>
    /\ instance_cfg = << >>
    /\ NoFetch

NextDownload ==
    \/ MainStartThread
    \/ MainPut
    \/ MainJoin
    \/ MainCopyOverrides
    \/ \E w \in Workers : Worker(w)

SpecDownload == InitDownload /\ [][NextDownload]_vars

\* the main thread and every started worker keep being scheduled
MainInDownloadMods == MainStartThread \/ MainPut \/ MainJoin

SpecDownloadFair ==
    /\ SpecDownload
    /\ WF_vars(MainInDownloadMods)
    /\ \A w \in Workers : WF_vars(Worker(w))

\* download_mods has returned to main (line 551) after a run in which every
\* fetch succeeded: the workers wait in get(), every descriptor was fetched
DownloadsDone(m) ==
    /\ thread_i = NumWorkers
    /\ put_i = Len(m.files)
    /\ download_queue = << >>
    /\ unfinished_tasks = 0
    /\ download_count = <<Len(m.files)>>
    /\ pc = [w \in Workers |-> "get"]
    /\ item = [w \in Workers |-> 0]
    /\ shown = [w \in Workers |-> 0]
    /\ fetched = [p \in ProjectIDs |->
                    Cardinality({ i \in DOMAIN m.files : m.files[i] = p })]
    /\ printed = IF print_messages THEN [i \in 1..Len(m.files) |-> i] ELSE << >>

\* main at line 553, for every combination of the -s and -m flags
InitProvision ==
    /\ args_server \in BOOLEAN
    /\ args_multimc \in BOOLEAN
    /\ print_messages = TRUE
    /\ is_os_windows \in BOOLEAN
    /\ \E a \in Archives :
        /\ UnzipOutcome(a).kind = "return"
        /\ archive = <<a>>
        /\ modpack_basedir = PathJoin(CWD, a.name)
        /\ modpack_cachedir = PathJoin(CACHE_DIR, PathJoin(CWD, a.name))
        /\ minecraft_dir = MinecraftDirFor(args_multimc, PathJoin(CWD, a.name))
        /\ DownloadsDone(a)
    /\ extracted = TRUE
    /\ main_pc = "copy_overrides"
    /\ exit_status = << >>
    /\ overrides_copied = FALSE
    /\ listing = << >>
    /\ files = NoFiles
    /\ forge_server_jar = None
    /\ start_script = None
    /\ prompts = << >>
    /\ installs = << >>
    /\ settings = << >>
    /\ answers = << >>
    /\ java_probe = << >>
    /\ instance_cfg = << >>
    /\ NoFetch

NextProvision ==
    \/ MainCopyOverrides
    \/ MainSetupMultiMC
    \/ SsiInstall
    \/ SsiScan
    \/ SsiStart

SpecProvision == InitProvision /\ [][NextProvision]_vars

\* download_file on its own: any local files, any server answer
InitFetch ==
    /\ InitRun
    /\ args_server = FALSE
    /\ args_multimc = FALSE
    /\ is_os_windows = FALSE
    /\ print_messages = TRUE
    /\ fetch_folder \in {None, FETCH_FOLDER}
    /\ fetch_remote \in Remotes
    /\ fetch_fs \in [PathsOf(fetch_folder) -> LocalSizes]
    /\ fetch_calls = << >>

NextFetch ==
    \/ FetchCall
    \/ FetchRemoteChanges

SpecFetch == InitFetch /\ [][NextFetch]_vars

(***************************************************************************)
(* Properties of download_mods (SpecDownload).                             *)
(***************************************************************************)
Occurrences(l, p) == Cardinality({ i \in DOMAIN l : l[i] = p })

\* download_mods has returned
Returned == main_pc \notin {"start_threads", "put", "join"}

\* the progress counter, an unbound name counting as 0
CountValue == IF download_count = << >> THEN 0 ELSE download_count[1]

InFlight(w) == pc[w] \in {"fetch", "count", "format", "print", "task_done"}

\* C1: when download_mods returns, every descriptor occurrence of the manifest
\* has been fetched exactly once (duplicates fetched as often as they occur)
\* and the progress counter equals the number of descriptors.
C1_ExactlyNDownloadsAndCountN ==
    Returned =>
        /\ \A p \in ProjectIDs : fetched[p] = Occurrences(Manifest.files, p)
        /\ CountValue = Len(Manifest.files)

\* C2: once a worker has died of an error in the resolution or the fetch, the
\* run never copies overrides, and it is never left unable to take a step
\* without having ended with a failure status.
C2_WorkerErrorIsFatal ==
    (\E w \in Workers : pc[w] = "dead") =>
        /\ ~overrides_copied
        /\ \/ ENABLED NextDownload
           \/ main_pc = "exited" /\ exit_status # << >> /\ exit_status # <<EXIT_NO_ERROR>>

\* C3: once download_mods has returned (copy_overrides may start), no
\* descriptor is waiting in the queue, none is in flight in a worker, every
\* put() has had its task_done(), and every descriptor occurrence was fetched.
C3_BarrierBeforeOverrides ==
    Returned =>
        /\ download_queue = << >>
        /\ unfinished_tasks = 0
        /\ put_i = Len(Manifest.files)
        /\ \A w \in Workers : ~InFlight(w) /\ pc[w] # "dead"
        /\ \A p \in ProjectIDs : fetched[p] = Occurrences(Manifest.files, p)

\* overrides were copied after two different descriptors went through workers
C3_Witness ==
    /\ overrides_copied
    /\ Len(Manifest.files) >= 2
    /\ \E p, q \in ProjectIDs : p # q /\ fetched[p] = 1 /\ fetched[q] = 1

\* between its increment of the counter and the end of its safe_print
InCountedRegion(w) == pc[w] \in {"format", "print"}

\* C4: with printing enabled, a worker's increment and the emission of its line
\* are atomic with respect to the other workers: while one worker is between
\* its increment and the printing of its line, no other worker is (so none
\* has incremented the counter in between).
C4_CountAndLineAtomic ==
    print_messages =>
        \A v, w \in Workers : InCountedRegion(v) /\ InCountedRegion(w) => v = w

(***************************************************************************)
(* Properties of download_file (SpecFetch).                                *)
(***************************************************************************)
\* call k and the one before it saw the same answer of the server, which
\* declared a Content-Length; the earlier one returned and the transport did
\* not fail in the later one
RepeatedCall(k) ==
    /\ k \in 2..Len(fetch_calls)
    /\ fetch_calls[k].remote = fetch_calls[k - 1].remote
    /\ fetch_calls[k].remote.has_length
    /\ fetch_calls[k - 1].raised = None
    /\ fetch_calls[k].raised # <<"RequestException">>

NoRewrite(k) ==
    /\ fetch_calls[k].raised = None
    /\ ~fetch_calls[k].wrote
    /\ fetch_calls[k].result = fetch_calls[k - 1].result

\* C5 as stated: a second call with the same URL and folder and an unchanged
\* remote content length does not write the local file and returns the same
\* path.
C5_SecondCallNeverRewrites ==
    \A k \in 1..Len(fetch_calls) : RepeatedCall(k) => NoRewrite(k)

\* C5 as amended: the same, when the declared Content-Length is the number of
\* bytes the body is written as.
C5_SecondCallSkipsOnTrueLength ==
    \A k \in 1..Len(fetch_calls) :
        RepeatedCall(k)
        /\ fetch_calls[k].remote.content_length = fetch_calls[k].remote.body
        => NoRewrite(k)

\* the first call wrote the file, the second returned the same path untouched
C5_Witness ==
    /\ Len(fetch_calls) = 2
    /\ RepeatedCall(2)
    /\ fetch_calls[2].remote.content_length = fetch_calls[2].remote.body
    /\ fetch_calls[1].wrote
    /\ ~fetch_calls[2].wrote
    /\ fetch_calls[2].result = fetch_calls[1].result
    /\ fetch_calls[2].result # None

\* C6: a call that finds the local file present while the response has no
\* Content-Length header re-downloads: it returns the path, having rewritten
\* the file, and does not end in an error.
C6_MissingLengthFailsOpen ==
    \A k \in 1..Len(fetch_calls) :
        /\ fetch_calls[k].existed
        /\ ~fetch_calls[k].remote.has_length
        /\ fetch_calls[k].raised # <<"RequestException">>
        => /\ fetch_calls[k].raised = None
           /\ fetch_calls[k].wrote
           /\ fetch_calls[k].result # None

(***************************************************************************)
(* Properties of main (Spec).                                              *)
(***************************************************************************)
\* the archive has been opened and unzip_modpack has ended, one way or another
Opened == archive # << >>

\* nothing of the modpack pipeline has run: no extraction, no directory set,
\* no worker started, nothing queued or fetched, no override copied
PipelineUntouched ==
    /\ ~extracted
    /\ modpack_basedir = None
    /\ thread_i = 0
    /\ \A w \in Workers : pc[w] = "not_started"
    /\ download_queue = << >>
    /\ \A p \in ProjectIDs : fetched[p] = 0
    /\ ~overrides_copied

\* no provisioner has run
ProvisionerUntouched ==
    /\ listing = << >>
    /\ prompts = << >>
    /\ installs = << >>
    /\ settings = << >>

InServerBundlePath == main_pc \in {"setup_server_from_zip", "sfz_install", "sfz_start"}

\* C7 as stated: every manifest whose manifestVersion differs from 1 ends the
\* run with status 3 before any download, override copy or provisioner.
C7_BadVersionExits3 ==
    Opened /\ Manifest.has_manifest
           /\ Manifest.manifestVersion.kind # "absent"
           /\ Manifest.manifestVersion.val # 1
    => /\ main_pc = "exited"
       /\ exit_status = <<EXIT_UNKNOWN_MANIFEST_VERSION>>
       /\ PipelineUntouched
       /\ ProvisionerUntouched

\* C7 as amended: the same for every manifest that declares the type
\* 'minecraftModpack'.
C7_ModpackBadVersionExits3 ==
    Opened /\ Manifest.has_manifest
           /\ Manifest.manifestType = "minecraftModpack"
           /\ Manifest.manifestVersion.kind # "absent"
           /\ Manifest.manifestVersion.val # 1
    => /\ main_pc = "exited"
       /\ exit_status = <<EXIT_UNKNOWN_MANIFEST_VERSION>>
       /\ PipelineUntouched
       /\ ProvisionerUntouched

\* a modpack manifest of version 2 ended the run with status 3
C7_Witness ==
    /\ Opened
    /\ Manifest.manifestType = "minecraftModpack"
    /\ Manifest.manifestVersion = [kind |-> "int", val |-> 2]
    /\ Len(Manifest.files) > 0
    /\ exit_status = <<EXIT_UNKNOWN_MANIFEST_VERSION>>

C9_NotAModpackExits2 ==
    Opened /\ Manifest.has_manifest /\ Manifest.manifestType # "minecraftModpack"
    => /\ main_pc = "exited"
       /\ exit_status = <<EXIT_NO_MODPACK>>
       /\ exit_status # <<EXIT_UNKNOWN_MANIFEST_VERSION>>
       /\ PipelineUntouched
       /\ ProvisionerUntouched

\* a manifest of another type, in server mode, ended the run with status 2
C9_Witness ==
    /\ Opened
    /\ Manifest.has_manifest
    /\ Manifest.manifestType = "other"
    /\ Manifest.manifestVersion = [kind |-> "int", val |-> 1]
    /\ args_server
    /\ exit_status = <<EXIT_NO_MODPACK>>

(***************************************************************************)
(* Properties of the server-bundle classifier (Spec).                      *)
(***************************************************************************)
\* the lowercased name has sub as a substring
NameContains(name, sub) ==
    \E i \in 1..(Len(name) - Len(sub) + 1) :
        \A j \in 1..Len(sub) : Lower(name)[i + j - 1] = sub[j]

NameEndsWith(name, suf) ==
    /\ Len(name) >= Len(suf)
    /\ \A j \in 1..Len(suf) : Lower(name)[Len(name) - Len(suf) + j] = suf[j]

HostExt == IF is_os_windows THEN EXT_bat ELSE EXT_sh

IsInstallScript(n) == NameContains(n, STR_install) /\ NameEndsWith(n, HostExt)

IsInstallJar(n) ==
    /\ NameContains(n, STR_install)
    /\ ~NameEndsWith(n, HostExt)
    /\ NameEndsWith(n, EXT_jar)

IsStartScript(n) ==
    /\ ~NameContains(n, STR_install)
    /\ NameContains(n, STR_start)
    /\ NameEndsWith(n, HostExt)

IsServerJar(n) ==
    /\ ~NameContains(n, STR_install)
    /\ ~NameContains(n, STR_start)
    /\ NameContains(n, STR_server)
    /\ NameEndsWith(n, EXT_jar)

Listed == { listing[i] : i \in DOMAIN listing }

\* role holds one of the candidates, and holds one whenever there is any
RoleSound(role, candidates) ==
    /\ role # None => role \in candidates
    /\ candidates # {} => role # None

\* the listing has just been classified (line 437 reached)
Classified == main_pc = "sfz_install"

RolesByName ==
    /\ RoleSound(files.install_script, { n \in Listed : IsInstallScript(n) })
    /\ RoleSound(files.forge_install_jar, { n \in Listed : IsInstallJar(n) })
    /\ RoleSound(files.start_script, { n \in Listed : IsStartScript(n) })
    /\ RoleSound(files.forge_server_jar, { n \in Listed : IsServerJar(n) })
    /\ \A n \in Listed :
         ~NameContains(n, STR_install)
         => n # files.install_script /\ n # files.forge_install_jar

TheThreeFiles == {F_ServerStart_sh, F_forge_installer_jar, F_server_jar}

TheThreeRoles ==
    /\ files.start_script = F_ServerStart_sh
    /\ files.forge_install_jar = F_forge_installer_jar
    /\ files.forge_server_jar = F_server_jar
    /\ files.install_script = None

\* C10 as stated: the roles follow the lowercased names as described, and a
\* directory holding ServerStart.sh, forge-installer.jar and server.jar gets
\* them as start script, install jar and server jar, whatever the host.
C10_RolesAndTheThreeFiles ==
    Classified =>
        /\ RolesByName
        /\ Listed = TheThreeFiles => TheThreeRoles

\* C10 as amended: the same, the three files getting their roles on a host
\* whose script extension is '.sh'.
C10_RolesAndTheThreeFilesOnSh ==
    Classified =>
        /\ RolesByName
        /\ Listed = TheThreeFiles /\ ~is_os_windows => TheThreeRoles

\* the three files were classified on a '.sh' host, server.jar listed first
C10_Witness ==
    /\ Classified
    /\ ~is_os_windows
    /\ Listed = TheThreeFiles
    /\ listing[1] = F_server_jar
    /\ TheThreeRoles

(***************************************************************************)
(* Properties of the provisioners that follow copy_overrides               *)
(* (SpecProvision).                                                        *)
(***************************************************************************)
\* the instance directory holds a file whose lowercased name contains 'start'
\* and ends with the script extension of the host
StartScriptListed ==
    \E n \in Listed : NameContains(n, STR_start) /\ NameEndsWith(n, HostExt)

Prompted(what) == \E i \in DOMAIN prompts : prompts[i] = what

\* setup_server_instance ran to its end
ServerInstanceDone == main_pc = "exited" /\ args_server

\* C11: setup_server_instance detects a start script exactly when such a file
\* is listed, and asks to generate one exactly when none is.
C11_StartScriptDetectedIffListed ==
    /\ main_pc = "ssi_start" => (Truthy(start_script) <=> StartScriptListed)
    /\ ServerInstanceDone => (Prompted("start_script") <=> ~StartScriptListed)

\* check_java() returned False
ProbeFailed == java_probe = <<FALSE>>

\* C12: in setup_server_instance, once the java probe has failed no installer
\* process is ever started and nothing raises; the run is at the start-script
\* scan, or past it at the start-script decision, each of which can take its
\* step, or it has ended, and then with exit status 0.
C12_MissingJavaIsNotFatal ==
    ProbeFailed =>
        /\ installs = << >>
        /\ main_pc \in {"ssi_scan", "ssi_start", "exited"}
        /\ main_pc = "ssi_scan" => ENABLED SsiScan
        /\ main_pc = "ssi_start" => ENABLED SsiStart
        /\ main_pc = "exited" => exit_status = <<EXIT_NO_ERROR>>

\* the probe failed, a non-empty directory was scanned and the run ended with 0
C12_Witness ==
    /\ ProbeFailed
    /\ args_server
    /\ listing # << >>
    /\ installs = << >>
    /\ main_pc = "exited"
    /\ exit_status = <<EXIT_NO_ERROR>>

\* setup_server_instance is the provisioner that runs (line 556)
ServerVariantRuns == main_pc \in {"setup_server_instance", "ssi_scan", "ssi_start"}

\* C13: whenever the server variant provisions, the instance root is the
\* named instance folder itself; it is the '.minecraft' subdirectory only
\* when the launcher-profile variant is the one that runs.
C13_ServerRootIsInstanceFolder ==
    /\ ServerVariantRuns => minecraft_dir = modpack_basedir
    /\ minecraft_dir = PathJoin(modpack_basedir, <<".minecraft">>)
         => main_pc \notin {"setup_server_instance", "ssi_scan", "ssi_start"}

\* the id of modLoaders[0] without its 'forge-' prefix
ForgeVersionOf(id) == SubSeq(id, Len(STR_forge_dash) + 1, Len(id))

HasForgePrefix(id) ==
    /\ Len(id) >= Len(STR_forge_dash)
    /\ \A i \in DOMAIN STR_forge_dash : id[i] = STR_forge_dash[i]

\* 'Modpack by <author>. Generated by CMPDL.'
NotesHead == STR_modpack_by \o AUTHOR \o STR_generated

\* C14: the notes written to instance.cfg are 'Modpack by <author>. Generated
\* by CMPDL.', followed by ' Using Forge <version>.' exactly when the loader
\* id starts with 'forge-' and by nothing otherwise; the name is the manifest
\* name followed by the manifest version.
C14_NotesAndName ==
    instance_cfg # << >> =>
        LET cfg == instance_cfg[1] IN
        /\ cfg.notes =
             IF HasForgePrefix(cfg.loader_id)
             THEN NotesHead \o STR_using_forge \o ForgeVersionOf(cfg.loader_id) \o <<".">>
             ELSE NotesHead
        /\ cfg.name = Manifest.name \o PACK_VERSION

(***************************************************************************)
(* More properties of the server-bundle path (Spec).                       *)
(***************************************************************************)
\* the positions of the listing whose name is a candidate
PositionsOf(candidates) == { i \in DOMAIN listing : listing[i] \in candidates }

\* the candidate that comes first in the listing, None when there is none
FirstListed(candidates) ==
    IF PositionsOf(candidates) = {} THEN None
    ELSE listing[CHOOSE i \in PositionsOf(candidates) :
                    \A j \in PositionsOf(candidates) : i <= j]

\* C15: after the classification each of the four roles holds the first file
\* of the listing that matches it, whatever the order and however many later
\* candidates or other files follow.
C15_FirstFoundWins ==
    Classified =>
        /\ files.install_script = FirstListed({ n \in Listed : IsInstallScript(n) })
        /\ files.forge_install_jar = FirstListed({ n \in Listed : IsInstallJar(n) })
        /\ files.start_script = FirstListed({ n \in Listed : IsStartScript(n) })
        /\ files.forge_server_jar = FirstListed({ n \in Listed : IsServerJar(n) })

\* two server jars were listed, the second one first in the listing, and a
\* start script after both: the first jar holds the role and the scan went on
C15_Witness ==
    /\ Classified
    /\ ~is_os_windows
    /\ listing = <<F_Minecraft_Server_JAR, F_server_jar, F_ServerStart_sh>>
    /\ files.forge_server_jar = F_Minecraft_Server_JAR
    /\ files.start_script = F_ServerStart_sh

\* a run of the server-bundle path is over: exit_program ran, or an exception
\* left main
BundleRunEnded ==
    /\ Opened
    /\ ~Manifest.has_manifest
    /\ args_server
    /\ main_pc \in {"exited", "uncaught"}

InstallKinds == {"install_script", "install_jar", "fresh_installer"}

\* the prompt of that kind was issued and answered yes
Accepted(kind) ==
    \E i \in DOMAIN prompts : prompts[i] = kind /\ answers[i]

ServerJarDetected == \E n \in Listed : IsServerJar(n)

StartScriptDetected == \E n \in Listed : IsStartScript(n)

\* C16: in the server-bundle path at most one install action is executed,
\* each only after its prompt was answered yes, none is executed or prompted
\* for when a server jar was detected, and the start-script prompt is the
\* last prompt, issued exactly when no start script was detected.
C16_OneGatedInstallThenStartPrompt ==
    /\ InServerBundlePath \/ BundleRunEnded =>
        /\ Len(installs) <= 1
        /\ \A i \in DOMAIN installs :
             installs[i] \in InstallKinds /\ Accepted(installs[i])
        /\ ServerJarDetected =>
             /\ installs = << >>
             /\ \A k \in InstallKinds : ~Prompted(k)
        /\ \A i \in DOMAIN prompts :
             prompts[i] = "start_script" => i = Len(prompts)
    /\ BundleRunEnded =>
        (Prompted("start_script") <=> ~StartScriptDetected)

(***************************************************************************)
(* Properties of unzip_modpack's directories (Spec).                       *)
(***************************************************************************)
\* path lies below dir: dir is a proper prefix of it
IsUnder(path, dir) ==
    /\ Len(path) > Len(dir)
    /\ SubSeq(path, 1, Len(dir)) = dir

\* C17: once a manifest is loaded, the directory the archive is extracted into
\* is a subdirectory of the cache directory.
C17_CacheDirUnderCache ==
    extracted => IsUnder(modpack_cachedir, CACHE_DIR)

(***************************************************************************)
(* More properties of download_mods (SpecDownloadFair, SpecDownload).      *)
(***************************************************************************)
NoWorkerDied == \A w \in Workers : pc[w] # "dead"

\* download_mods has returned with the queue drained, every put() matched by
\* a task_done() and every descriptor occurrence fetched
AllDoneAndReturned ==
    /\ Returned
    /\ download_queue = << >>
    /\ unfinished_tasks = 0
    /\ \A p \in ProjectIDs : fetched[p] = Occurrences(Manifest.files, p)

\* C18: under fair scheduling, when no resolution and no fetch ever fails,
\* download_mods returns: every queued descriptor is dequeued, fetched and
\* marked done and the join barrier is released, for every N >= 0.
C18_DownloadModsTerminates == []NoWorkerDied => <>AllDoneAndReturned

\* download_mods returned from a run with two descriptors, no worker dead
C18_Witness ==
    /\ AllDoneAndReturned
    /\ NoWorkerDied
    /\ Len(Manifest.files) = MaxMods

\* how many times 'download_count += 1' has been executed: once for every
\* completed fetch, less the workers that fetched and have yet to count
IncrementsExecuted ==
    LET total[p \in 0..MaxMods] ==
            IF p = 0 THEN 0 ELSE total[p - 1] + fetched[p]
    IN  total[MaxMods] - Cardinality({ w \in Workers : pc[w] = "count" })

\* C19: the progress counter always equals the number of increments executed
\* so far: the lazy initialisation never overwrites an increment.
C19_CounterEqualsIncrements == CountValue = IncrementsExecuted

(***************************************************************************)
(* The settings file (Spec).                                               *)
(***************************************************************************)
\* the names SERVER_JAR may rightly carry: a server jar found in the
\* directory, or the jar install_forge_server reports after running the
\* installer
ServerJarsOfTheRun ==
    { n \in Listed : IsServerJar(n) }
        \cup { InstallForgeServer(FORGE_VERSION, TRUE) :
                 i \in { j \in DOMAIN installs : installs[j] = "fresh_installer" } }

\* C20: whenever a settings file is generated, the SERVER_JAR value written
\* is the name of a server jar detected or installed in that run, never an
\* absent value.
C20_ServerJarIsAJar ==
    settings # << >> =>
        /\ settings[1] # None
        /\ settings[1] \in ServerJarsOfTheRun

====
